---- MODULE Spec2Model ----
(***************************************************************************)
(* Model of src/app/page.tsx: the CPI time-series engine of the inflation  *)
(* tracker.  The pure functions (pctChangeYoY, pctChangeMoM,               *)
(* parseBlsSeries, chartData) are operators; the acquisition orchestrator  *)
(* (useBlsData, fetchSeries) and the render conditions of                  *)
(* InflationTrackerApp are a state machine.                                *)
(*                                                                         *)
(* JavaScript values are tagged records.  A number is a normalised         *)
(* rational n/d, or NaN, or a signed infinity; IEEE rounding is not        *)
(* modelled and -0 is identified with +0.                                  *)
(***************************************************************************)
EXTENDS Integers, Sequences, FiniteSets, TLC

VARIABLES
    startYear,      \* InflationTrackerApp: the startYear state
    effectPending,  \* a render with a changed [startYear] has committed, its effect has not run
    cycles,         \* one record per run() started by the effect of useBlsData, oldest first;
                    \* pc is "await" (suspended at the await), "published" (returned after
                    \* its setState) or "dropped" (returned at `if (cancelled) return`)
    state,          \* useBlsData: the {loading, error, data} state
    input,          \* argument of the pure function under check
    output          \* its result

vars == <<startYear, effectPending, cycles, state, input, output>>

-----------------------------------------------------------------------------
(* JavaScript values *)

Null == [k |-> "null"]
Arr(s) == [k |-> "arr", a |-> s]
Str(s) == [k |-> "str", s |-> s]

Abs(x) == IF x < 0 THEN -x ELSE x
Sign(x) == IF x < 0 THEN -1 ELSE IF x > 0 THEN 1 ELSE 0

RECURSIVE Gcd(_, _)
Gcd(a, b) == IF b = 0 THEN a ELSE Gcd(b, a % b)

NaN == [k |-> "nan", n |-> 0, d |-> 1]
Inf(s) == [k |-> "inf", n |-> s, d |-> 0]
\* the rational n/d (d # 0) in lowest terms with a positive denominator
Num(n, d) ==
    LET g == Gcd(Abs(n), Abs(d))
    IN  [k |-> "num", n |-> (Sign(d) * n) \div g, d |-> Abs(d) \div g]
Int2Num(i) == Num(i, 1)

\* a - b on JavaScript numbers
JsSub(a, b) ==
    IF a.k = "nan" \/ b.k = "nan" THEN NaN
    ELSE IF a.k = "inf" /\ b.k = "inf" THEN (IF a.n = b.n THEN NaN ELSE a)
    ELSE IF a.k = "inf" THEN a
    ELSE IF b.k = "inf" THEN Inf(-b.n)
    ELSE Num(a.n * b.d - b.n * a.d, a.d * b.d)

\* a / b on JavaScript numbers: a zero divisor gives NaN (0/0) or an infinity
JsDiv(a, b) ==
    IF a.k = "nan" \/ b.k = "nan" THEN NaN
    ELSE IF a.k = "inf" /\ b.k = "inf" THEN NaN
    ELSE IF a.k = "inf" THEN Inf(IF b.n < 0 THEN -a.n ELSE a.n)
    ELSE IF b.k = "inf" THEN Num(0, 1)
    ELSE IF b.n = 0 THEN (IF a.n = 0 THEN NaN ELSE Inf(Sign(a.n)))
    ELSE Num(a.n * b.d, a.d * b.n)

\* a * b on JavaScript numbers
JsMul(a, b) ==
    IF a.k = "nan" \/ b.k = "nan" THEN NaN
    ELSE IF a.k = "inf" \/ b.k = "inf"
         THEN (IF a.n = 0 \/ b.n = 0 THEN NaN ELSE Inf(Sign(a.n) * Sign(b.n)))
    ELSE Num(a.n * b.n, a.d * b.d)

-----------------------------------------------------------------------------
(* Metric calculator *)

\* pctChangeYoY comparing with the value 12 back instead of 13 back
pctChangeYoYTwelveBack(series) ==
    IF series = Null \/ Len(series.a) < 13 THEN Null
    ELSE LET latest == series.a[(Len(series.a) - 1) + 1]
             prevYear == series.a[(Len(series.a) - 12) + 1]
         IN  JsMul(JsDiv(JsSub(latest, prevYear), prevYear), Int2Num(100))

\* pctChangeYoY(series): series is Null or Arr(<<numbers>>); series[i] of the
\* code is a[i + 1] here
pctChangeYoY(series) ==
    IF series = Null \/ Len(series.a) < 13 THEN Null
    ELSE LET latest == series.a[(Len(series.a) - 1) + 1]
             prevYear == series.a[(Len(series.a) - 13) + 1]
         IN  JsMul(JsDiv(JsSub(latest, prevYear), prevYear), Int2Num(100))

pctChangeMoM(series) ==
    IF series = Null \/ Len(series.a) < 2 THEN Null
    ELSE LET latest == series.a[(Len(series.a) - 1) + 1]
             prev == series.a[(Len(series.a) - 2) + 1]
         IN  JsMul(JsDiv(JsSub(latest, prev), prev), Int2Num(100))

-----------------------------------------------------------------------------
(* Series parser.  Strings of a payload are sequences of characters; an     *)
(* object is a function from its property names to their values.           *)

Undef == [k |-> "undefined"]
Obj(f) == [k |-> "obj", f |-> f]
\* the exception a property access on null or undefined raises
Throw == [k |-> "throw"]

\* v.name: undefined when the property is missing; the caller checks Nullish(v)
Prop(v, name) == IF v.k = "obj" /\ name \in DOMAIN v.f THEN v.f[name] ELSE Undef
Nullish(v) == v.k \in {"null", "undefined"}

Chars2015 == <<"2", "0", "1", "5">>
Chars2016 == <<"2", "0", "1", "6">>
Chars2023 == <<"2", "0", "2", "3">>
Chars2024 == <<"2", "0", "2", "4">>

\* the object {year, period, value}; an undefined property is a missing one
MkTuple(y, p, v) ==
    LET all == [n \in {"year", "period", "value"} |->
                   IF n = "year" THEN y ELSE IF n = "period" THEN p ELSE v]
    IN  Obj([n \in {m \in DOMAIN all : all[m] # Undef} |-> all[n]])

NoProps == [n \in {} |-> Undef]
\* {Results: {series: [{data: d}]}}
Payload(d) == Obj("Results" :> Obj("series" :> Arr(<<Obj("data" :> d)>>)))

DigitChars == {"0", "1", "2", "3", "4", "5", "6", "7", "8", "9"}
DigitVal(c) ==
    CASE c = "0" -> 0 [] c = "1" -> 1 [] c = "2" -> 2 [] c = "3" -> 3 [] c = "4" -> 4
      [] c = "5" -> 5 [] c = "6" -> 6 [] c = "7" -> 7 [] c = "8" -> 8 [] c = "9" -> 9

RECURSIVE DigitsLen(_)
\* length of the longest prefix of decimal digits
DigitsLen(s) ==
    IF s # <<>> /\ Head(s) \in DigitChars THEN 1 + DigitsLen(Tail(s)) ELSE 0

RECURSIVE DigitsVal(_, _)
\* value of the digit string s appended to the digits already read (acc)
DigitsVal(s, acc) ==
    IF s = <<>> THEN acc ELSE DigitsVal(Tail(s), acc * 10 + DigitVal(Head(s)))

RECURSIVE Pow10(_)
Pow10(n) == IF n = 0 THEN 1 ELSE 10 * Pow10(n - 1)

\* parseFloat(v): the longest prefix [+-]digits[.digits] of String(v); NaN when
\* there is none (undefined reads as "undefined").  Exponents, "Infinity" and
\* leading white space do not occur in the strings of this model.
parseFloat(v) ==
    IF v.k # "str" THEN NaN
    ELSE LET s == v.s
             neg == s # <<>> /\ Head(s) = "-"
             body == IF s # <<>> /\ Head(s) \in {"-", "+"} THEN Tail(s) ELSE s
             il == DigitsLen(body)
             rest == SubSeq(body, il + 1, Len(body))
             fl == IF rest # <<>> /\ Head(rest) = "." THEN DigitsLen(Tail(rest)) ELSE 0
             ipart == DigitsVal(SubSeq(body, 1, il), 0)
             mant == DigitsVal(SubSeq(rest, 2, fl + 1), ipart)
         IN  IF il = 0 /\ fl = 0 THEN NaN
             ELSE Num(IF neg THEN -mant ELSE mant, Pow10(fl))

\* String.prototype.substr(1)
Substr1(s) == IF s = <<>> THEN <<>> ELSE Tail(s)

\* the template literal `${d.year}-${d.period.substr(1)}-01`
DateString(year, mm) == year \o <<"-">> \o mm \o <<"-", "0", "1">>

InvalidDate == [k |-> "date", valid |-> FALSE, y |-> 0, m |-> 0]
ValidDate(y, m) == [k |-> "date", valid |-> TRUE, y |-> y, m |-> m]

\* new Date(s) for the date-only form YYYY-MM-DD (UTC midnight): an illegal
\* month or day gives an Invalid Date.  The strings built here always have
\* this form when year has four characters and the period three; any other
\* string is outside the inputs of this model.
NewDate(s) ==
    IF /\ Len(s) = 10
       /\ s[5] = "-" /\ s[8] = "-"
       /\ \A i \in {1, 2, 3, 4, 6, 7, 9, 10} : s[i] \in DigitChars
    THEN LET y == DigitsVal(SubSeq(s, 1, 4), 0)
             m == DigitsVal(SubSeq(s, 6, 7), 0)
             d == DigitsVal(SubSeq(s, 9, 10), 0)
         IN  IF m \in 1..12 /\ d \in 1..28 THEN ValidDate(y, m) ELSE InvalidDate
    ELSE InvalidDate

\* a.date - b.date: the difference of the two time values, NaN when either is
\* invalid.  Months stand for milliseconds: only the sign is used.
DateDiff(a, b) ==
    IF a.valid /\ b.valid THEN Int2Num((a.y * 12 + a.m) - (b.y * 12 + b.m)) ELSE NaN

\* the callback of data.map: Throw when d or d.period has no such property.
\* Every tuple of this model has a year.
MapPoint(d) ==
    IF Nullish(d) THEN Throw
    ELSE IF Prop(d, "period").k # "str" THEN Throw
    ELSE [date |-> NewDate(DateString(Prop(d, "year").s, Substr1(Prop(d, "period").s))),
          value |-> parseFloat(Prop(d, "value"))]

\* the comparator b.date - a.date
SortLessDescending(a, b) ==
    LET v == DateDiff(b.date, a.date) IN v.k = "num" /\ v.n < 0

\* the comparator of sort, as SortCompare reads it: NaN counts as +0
SortLess(a, b) ==
    LET v == DateDiff(a.date, b.date) IN v.k = "num" /\ v.n < 0

RECURSIVE InsertSorted(_, _)
\* p placed behind every element that does not compare greater than it
InsertSorted(sorted, p) ==
    IF sorted = <<>> THEN <<p>>
    ELSE IF SortLess(p, sorted[Len(sorted)])
         THEN Append(InsertSorted(SubSeq(sorted, 1, Len(sorted) - 1), p), sorted[Len(sorted)])
         ELSE Append(sorted, p)

RECURSIVE StableSort(_)
StableSort(s) ==
    IF s = <<>> THEN <<>>
    ELSE InsertSorted(StableSort(SubSeq(s, 1, Len(s) - 1)), s[Len(s)])

\* the comparator is consistent unless an invalid date compares equal to two
\* valid dates that differ
ConsistentCompare(s) ==
    \/ \A i \in 1..Len(s) : s[i].date.valid
    \/ \A i, j \in 1..Len(s) :
          s[i].date.valid /\ s[j].date.valid => s[i].date = s[j].date

Reorderings(s) ==
    {[i \in 1..Len(s) |-> s[f[i]]] :
        f \in {g \in [1..Len(s) -> 1..Len(s)] : \A i, j \in 1..Len(s) : i # j => g[i] # g[j]}}

\* Array.prototype.sort((a, b) => a.date - b.date): the stable sort when the
\* comparator is consistent, otherwise an implementation-defined order
SortByDate(s) ==
    IF ConsistentCompare(s) THEN {StableSort(s)} ELSE Reorderings(s)

\* parseBlsSeries(json): the set of arrays the call can return
parseBlsSeries(json) ==
    IF Nullish(json) THEN {Arr(<<>>)}
    ELSE LET Results == Prop(json, "Results") IN
    IF Nullish(Results) THEN {Arr(<<>>)}
    ELSE LET all == Prop(Results, "series") IN
    IF Nullish(all) THEN {Arr(<<>>)}
    ELSE LET series == IF all.k = "arr" /\ all.a # <<>> THEN all.a[1] ELSE Undef IN
    IF Nullish(series) THEN {Arr(<<>>)}
    ELSE LET data == Prop(series, "data") IN
    IF data.k # "arr" THEN {Arr(<<>>)}
    ELSE LET points == [i \in 1..Len(data.a) |-> MapPoint(data.a[i])] IN
    IF \E i \in 1..Len(points) : points[i] = Throw THEN {Arr(<<>>)}
    ELSE {Arr(sorted) : sorted \in SortByDate(points)}

-----------------------------------------------------------------------------
(* Derived metrics and chart rows (the useMemo projections of data).  data *)
(* is Null or a record of the three parsed arrays.                         *)

DataObj(hNSA, hSA, core) ==
    [k |-> "obj", headlineNSA |-> hNSA, headlineSA |-> hSA, coreSA |-> core]

Values(points) == [i \in 1..Len(points) |-> points[i].value]

metrics(data) ==
    IF data = Null THEN Null
    ELSE LET hNSA == Values(data.headlineNSA)
             hSA == Values(data.headlineSA)
             core == Values(data.coreSA)
         IN  [k |-> "obj",
              headlineYoY |-> pctChangeYoY(Arr(hNSA)),
              headlineMoM |-> pctChangeMoM(Arr(hSA)),
              coreYoY |-> pctChangeYoY(Arr(core)),
              coreMoM |-> pctChangeMoM(Arr(core)),
              lastDate |-> IF data.headlineNSA = <<>> THEN Null
                           ELSE data.headlineNSA[Len(data.headlineNSA)].date]

DigitChar(n) ==
    CASE n = 0 -> "0" [] n = 1 -> "1" [] n = 2 -> "2" [] n = 3 -> "3" [] n = 4 -> "4"
      [] n = 5 -> "5" [] n = 6 -> "6" [] n = 7 -> "7" [] n = 8 -> "8" [] n = 9 -> "9"

RECURSIVE NatString(_)
\* String(n) for a natural number n
NatString(n) ==
    IF n < 10 THEN <<DigitChar(n)>> ELSE Append(NatString(n \div 10), DigitChar(n % 10))

\* s.padStart(2, "0")
PadStart2(s) == IF Len(s) < 2 THEN <<"0">> \o s ELSE s

\* the first days of the months ms of the years ys
FirstDays(ys, ms) == {<<y, m>> : y \in ys, m \in ms}

\* a time zone, as far as getFullYear() and getMonth() read it: the dates
\* <<year, month>> at whose first day, UTC midnight, local time is behind UTC.
\* The offset in force is the zone's at that date: all year or never, in the
\* winters or the summers only, or changed by the zone from one year to the next.
TimeZones ==
    { {},
      FirstDays(2023..2024, 1..12),
      FirstDays(2023..2024, {1, 2, 3, 11, 12}),
      FirstDays(2023..2024, 4..10),
      FirstDays({2023}, {1, 2, 3, 11, 12}) \cup FirstDays({2024}, 1..12),
      FirstDays({2023}, 1..12) }

\* the calendar month of the date in local time: dates are UTC midnight of the
\* first of a month, which is the last day of the month before wherever the
\* offset in force at that date is negative
LocalMonth(date, behind) ==
    IF <<date.y, date.m>> \notin behind THEN date
    ELSE IF date.m = 1 THEN ValidDate(date.y - 1, 12) ELSE ValidDate(date.y, date.m - 1)

\* `${row.date.getFullYear()}-${String(row.date.getMonth() + 1).padStart(2, "0")}`
RowLabel(date, behind) ==
    IF ~date.valid THEN <<"N", "a", "N", "-", "N", "a", "N">>
    ELSE LET l == LocalMonth(date, behind)
         IN  NatString(l.y) \o <<"-">> \o PadStart2(NatString(l.m))

\* series[i]?.value || null: a falsy value (0, NaN) becomes null
AuxValueOrNull(series, i) ==
    IF i + 1 <= Len(series) /\ series[i + 1].value.k = "num" /\ series[i + 1].value.n # 0
    THEN series[i + 1].value ELSE Null

\* series[i]?.value ?? null, for the 0-based index i
AuxValue(series, i) == IF i + 1 <= Len(series) THEN series[i + 1].value ELSE Null

chartData(data, behind) ==
    IF data = Null THEN <<>>
    ELSE [j \in 1..Len(data.headlineNSA) |->
            LET row == data.headlineNSA[j]
                i == j - 1
            IN  [date |-> RowLabel(row.date, behind),
                 Headline_NSA |-> row.value,
                 Headline_SA |-> AuxValue(data.headlineSA, i),
                 Core_SA |-> AuxValue(data.coreSA, i)]]

-----------------------------------------------------------------------------
(* Bounds and input sets of the pure-function specifications *)

MaxLen == 14
CalcValues == {Int2Num(0), Int2Num(100)}

Idle == [k |-> "idle"]

-----------------------------------------------------------------------------
(* Acquisition orchestrator: useBlsData, fetchSeries and the startYear     *)
(* input of InflationTrackerApp.  Error messages are TLA+ strings.         *)

MaxCycles == 2

DefaultStartYear == 2015
\* the years the user types into the start-year input
Years == {2015, 2016}

SERIES == <<"CUUR0000SA0", "CUSR0000SA0", "CUSR0000SA0L1E">>
Slots == 1..3

\* what the server holds for a series, newest first as the API lists it
ServerData(seriesId) ==
    LET v == CASE seriesId = SERIES[1] -> <<"1", "0", "1">>
               [] seriesId = SERIES[2] -> <<"1", "0", "0", ".", "5">>
               [] seriesId = SERIES[3] -> <<"9", "9">>
    IN  <<MkTuple(Str(Chars2016), Str(<<"M", "0", "1">>), Str(v \o <<".", "5">>)),
          MkTuple(Str(Chars2015), Str(<<"M", "1", "2">>), Str(v))>>

RECURSIVE SelectFrom(_, _)
\* the tuples of year startYear or later, in the order given
SelectFrom(tuples, year) ==
    IF tuples = <<>> THEN <<>>
    ELSE LET rest == SelectFrom(Tail(tuples), year)
         IN  IF DigitsVal(Prop(Head(tuples), "year").s, 0) >= year
             THEN <<Head(tuples)>> \o rest ELSE rest

\* the JSON document of `${BLS_BASE}/${seriesId}?startyear=${startYear}`
Response(seriesId, year) == Payload(Arr(SelectFrom(ServerData(seriesId), year)))

HttpStatuses == {200, 500}
\* res.ok
Ok(status) == status \in 200..299
\* `BLS fetch failed (${res.status})`
StatusMessage(status) == "BLS fetch failed (" \o ToString(status) \o ")"
\* messages of the errors fetch() and res.json() reject with
NetworkFaults == {"Failed to fetch", ""}
JsonFaults == {"Unexpected end of JSON input"}

LoadingState == [loading |-> TRUE, error |-> Null, data |-> Null]
ReadyState(data) == [loading |-> FALSE, error |-> Null, data |-> data]
ErrorState(message) == [loading |-> FALSE, error |-> Str(message), data |-> Null]

NumCycles == Len(cycles)

\* Promise.allSettled read as a success: fulfilled once no fetch is pending
PromiseAllSettled(fetch) ==
    IF \A i \in Slots : fetch[i] \in {"ok", "failed"} THEN "fulfilled" ELSE "pending"

\* Promise.any: fulfilled by the first fetch that succeeds
PromiseAny(fetch) ==
    IF \E i \in Slots : fetch[i] = "ok" THEN "fulfilled"
    ELSE IF \A i \in Slots : fetch[i] = "failed" THEN "rejected"
    ELSE "pending"

\* the promise of Promise.all over the three fetchSeries promises
PromiseAll(fetch) ==
    IF \E i \in Slots : fetch[i] = "failed" THEN "rejected"
    ELSE IF \A i \in Slots : fetch[i] = "ok" THEN "fulfilled"
    ELSE "pending"

OrchInit ==
    /\ startYear = DefaultStartYear
    /\ effectPending = TRUE
    /\ cycles = <<>>
    /\ state = LoadingState

OrchUnchanged == UNCHANGED <<startYear, effectPending, cycles, state>>
PureUnchanged == UNCHANGED <<input, output>>

\* onChange of the start-year input: setStartYear with another year re-renders
\* with new effect dependencies.  The effects of a render run before the next.
SetStartYear(y) ==
    /\ y # startYear
    /\ ~effectPending
    /\ NumCycles < MaxCycles
    /\ startYear' = y
    /\ effectPending' = TRUE
    /\ UNCHANGED <<cycles, state>>
    /\ PureUnchanged

\* the effect without the setState at the start of run()
RunEffectWithoutReset ==
    /\ effectPending
    /\ effectPending' = FALSE
    /\ cycles' = Append([c \in 1..NumCycles |->
                            IF c = NumCycles THEN [cycles[c] EXCEPT !.cancelled = TRUE]
                            ELSE cycles[c]],
                        [startYear |-> startYear, cancelled |-> FALSE,
                         fetch |-> [i \in Slots |-> "fetching"], pc |-> "await"])
    /\ UNCHANGED <<startYear, state>>
    /\ PureUnchanged

\* the effect of useBlsData: the cleanup of the previous run sets its
\* cancelled flag, then run() starts and suspends at the await
RunEffect ==
    /\ effectPending
    /\ effectPending' = FALSE
    /\ cycles' = Append([c \in 1..NumCycles |->
                            IF c = NumCycles THEN [cycles[c] EXCEPT !.cancelled = TRUE]
                            ELSE cycles[c]],
                        [startYear |-> startYear, cancelled |-> FALSE,
                         fetch |-> [i \in Slots |-> "fetching"], pc |-> "await"])
    /\ state' = LoadingState
    /\ UNCHANGED startYear
    /\ PureUnchanged

\* parseBlsSeries of the document each fetchSeries of a cycle resolves with
Parsed == [i \in Slots, y \in Years |-> parseBlsSeries(Response(SERIES[i], y))]

\* run() without the two `if (cancelled) return` checks
ResumeIgnoringCancelled(c, fetch, message) ==
    IF cycles[c].pc # "await" \/ PromiseAll(fetch) = "pending" THEN {state}
    ELSE IF PromiseAll(fetch) = "rejected" THEN {ErrorState(message)}
    ELSE {ReadyState(DataObj(headlineNSA.a, headlineSA.a, coreSAData.a)) :
            headlineNSA \in Parsed[1, cycles[c].startYear],
            headlineSA \in Parsed[2, cycles[c].startYear],
            coreSAData \in Parsed[3, cycles[c].startYear]}

\* run() of cycle c resumes after the await once the promise has settled: the
\* new state, given the fetch slots after the settlement
Resume(c, fetch, message) ==
    IF cycles[c].pc # "await" \/ PromiseAll(fetch) = "pending" \/ cycles[c].cancelled
    THEN {state}
    ELSE IF PromiseAll(fetch) = "rejected" THEN {ErrorState(message)}
    ELSE {ReadyState(DataObj(headlineNSA.a, headlineSA.a, coreSAData.a)) :
            headlineNSA \in Parsed[1, cycles[c].startYear],
            headlineSA \in Parsed[2, cycles[c].startYear],
            coreSAData \in Parsed[3, cycles[c].startYear]}

\* slot i of cycle c reaches its next stage, and run() resumes if that settles
\* the promise it awaits
Settle(c, i, to, message) ==
    LET fetch == [cycles[c].fetch EXCEPT ![i] = to]
    IN  /\ cycles' = [cycles EXCEPT ![c].fetch = fetch,
                                    ![c].pc = IF @ # "await" \/ PromiseAll(fetch) = "pending"
                                              THEN @
                                              ELSE IF cycles[c].cancelled THEN "dropped"
                                              ELSE "published"]
        /\ state' \in Resume(c, fetch, message)

\* fetch(url) resolves with a response: fetchSeries throws unless res.ok
FetchResponds(c, i, status) ==
    /\ c \in 1..NumCycles
    /\ cycles[c].fetch[i] = "fetching"
    /\ IF Ok(status) THEN Settle(c, i, "reading", "")
       ELSE Settle(c, i, "failed", StatusMessage(status))
    /\ UNCHANGED <<startYear, effectPending>>
    /\ PureUnchanged

\* fetch(url) rejects (network fault)
FetchRejects(c, i, message) ==
    /\ c \in 1..NumCycles
    /\ cycles[c].fetch[i] = "fetching"
    /\ Settle(c, i, "failed", message)
    /\ UNCHANGED <<startYear, effectPending>>
    /\ PureUnchanged

\* res.json() resolves with the parsed document
JsonResolves(c, i) ==
    /\ c \in 1..NumCycles
    /\ cycles[c].fetch[i] = "reading"
    /\ Settle(c, i, "ok", "")
    /\ UNCHANGED <<startYear, effectPending>>
    /\ PureUnchanged

\* res.json() rejects
JsonRejects(c, i, message) ==
    /\ c \in 1..NumCycles
    /\ cycles[c].fetch[i] = "reading"
    /\ Settle(c, i, "failed", message)
    /\ UNCHANGED <<startYear, effectPending>>
    /\ PureUnchanged

\* the Refresh button: window.location.reload() discards the page, its state
\* and its load cycles, whose cleanup does not run, and mounts it anew
Reload ==
    /\ startYear' = DefaultStartYear
    /\ effectPending' = TRUE
    /\ cycles' = <<>>
    /\ state' = LoadingState
    /\ PureUnchanged

OrchInitPure ==
    /\ input = Idle
    /\ output = Idle

Init == OrchInit /\ OrchInitPure

Next ==
    \/ \E y \in Years : SetStartYear(y)
    \/ RunEffect
    \/ \E c \in 1..MaxCycles, i \in Slots, status \in HttpStatuses : FetchResponds(c, i, status)
    \/ \E c \in 1..MaxCycles, i \in Slots, m \in NetworkFaults : FetchRejects(c, i, m)
    \/ \E c \in 1..MaxCycles, i \in Slots : JsonResolves(c, i)
    \/ \E c \in 1..MaxCycles, i \in Slots, m \in JsonFaults : JsonRejects(c, i, m)
    \/ Reload

Spec == Init /\ [][Next]_vars

\* a step of a pending fetch
FetchStep ==
    \E c \in 1..MaxCycles, i \in Slots :
        \/ \E status \in HttpStatuses : FetchResponds(c, i, status)
        \/ \E m \in NetworkFaults : FetchRejects(c, i, m)
        \/ JsonResolves(c, i)
        \/ \E m \in JsonFaults : JsonRejects(c, i, m)

\* a committed effect runs, and while fetches are pending one of them moves on
Fairness == WF_vars(RunEffect) /\ WF_vars(FetchStep)

LiveSpec == Spec /\ Fairness

\* JavaScript truthiness of null, undefined, a string or an object
Truthy(v) == IF v.k = "str" THEN v.s # "" ELSE v.k \notin {"null", "undefined"}

\* the three conditional blocks of the chart card: {loading && ...},
\* {error && ...} and {!loading && !error && ...}
ShowsLoading == state.loading
ShowsError == Truthy(state.error)
ShowsDashboard == ~state.loading /\ ~Truthy(state.error)

-----------------------------------------------------------------------------
(* Specifications of the pure functions *)

CalcInit ==
    /\ OrchInit
    /\ \/ input = Null
       \/ \E n \in 0..MaxLen : \E s \in [1..n -> CalcValues] : input = Arr(s)
    /\ output = Idle

CallCalc ==
    /\ output = Idle
    /\ output' = [yoy |-> pctChangeYoY(input), mom |-> pctChangeMoM(input)]
    /\ UNCHANGED input
    /\ OrchUnchanged

CalcNext == CallCalc
CalcSpec == CalcInit /\ [][CalcNext]_vars

-----------------------------------------------------------------------------
(* Payloads given to the parser *)

MaxTuples == 3

TupleYears == {Str(Chars2023), Str(Chars2024)}
MonthPeriods == {Str(<<"M", "0", "1">>), Str(<<"M", "1", "2">>)}
\* M13 is the annual average
TuplePeriods == MonthPeriods \cup {Str(<<"M", "1", "3">>)}
NumericValues == {Str(<<"1", "0", "0", ".", "5">>), Str(<<"9", "9">>)}
TupleValues == NumericValues \cup {Str(<<"x">>), Undef}

\* the entries of a data array: tuples, a tuple without period, and null
Tuples ==
    {MkTuple(y, p, v) : y \in TupleYears, p \in TuplePeriods, v \in TupleValues}
    \cup {MkTuple(Str(Chars2023), Undef, Str(<<"9", "9">>)), Null}

\* payloads without a data array
Shapeless ==
    {Null, Obj(NoProps), Obj("Results" :> Obj(NoProps)),
     Obj("Results" :> Obj("series" :> Arr(<<>>))),
     Obj("Results" :> Obj("series" :> Arr(<<Obj(NoProps)>>))),
     Payload(Str(<<>>))}

ParseInit ==
    /\ OrchInit
    /\ \/ input \in Shapeless
       \/ \E n \in 0..MaxTuples : \E t \in [1..n -> Tuples] : input = Payload(Arr(t))
    /\ output = Idle

CallParse ==
    /\ output = Idle
    /\ output' \in parseBlsSeries(input)
    /\ UNCHANGED input
    /\ OrchUnchanged

ParseNext == CallParse
ParseSpec == ParseInit /\ [][ParseNext]_vars

-----------------------------------------------------------------------------
(* Data given to the chart-row projection *)

MaxRows == 16

ChartValues == <<Int2Num(0), Int2Num(100), NaN>>

\* n monthly points from January 2023 on, their values cycling from shift
MonthlySeries(n, shift) ==
    [i \in 1..n |->
        [date |-> ValidDate(2023 + ((i - 1) \div 12), ((i - 1) % 12) + 1),
         value |-> ChartValues[((i + shift) % 3) + 1]]]

ChartInit ==
    /\ OrchInit
    /\ \E z \in TimeZones :
         \/ input = [data |-> Null, behind |-> z]
         \/ \E n1 \in 0..MaxRows, n2 \in 0..MaxRows, n3 \in 0..MaxRows, s1 \in 0..2, s2 \in 0..2 :
               input = [data |-> DataObj(MonthlySeries(n1, s1), MonthlySeries(n2, s2),
                                         MonthlySeries(n3, s2 + 1)),
                        behind |-> z]
    /\ output = Idle

CallChart ==
    /\ output = Idle
    /\ output' = [rows |-> chartData(input.data, input.behind),
                  metrics |-> metrics(input.data)]
    /\ UNCHANGED input
    /\ OrchUnchanged

ChartNext == CallChart
ChartSpec == ChartInit /\ [][ChartNext]_vars

-----------------------------------------------------------------------------
(* Properties of the orchestrator *)

cur == NumCycles
Pending(status) == status \in {"fetching", "reading"}
IsLoading(s) == s.loading = TRUE /\ s.error = Null /\ s.data = Null
IsError(s) == s.loading = FALSE /\ s.error.k = "str" /\ s.data = Null
IsReady(s) == s.loading = FALSE /\ s.error = Null /\ s.data # Null

\* C1: a load cycle that has been superseded never writes the LoadState when
\* its fetches settle, and every Ready or Error state is written by the
\* resumption of the cycle that is current at that moment.
C1_StaleCycleNeverPublishes ==
    [][/\ \A c \in 1..NumCycles :
            c <= NumCycles' /\ cycles[c].cancelled /\ cycles'[c] # cycles[c] => state' = state
       /\ state' # state /\ ~IsLoading(state') =>
            /\ NumCycles' = NumCycles
            /\ cur >= 1
            /\ ~cycles[cur].cancelled
            /\ cycles[cur].pc = "await"
            /\ cycles'[cur].pc = "published"
            /\ \A c \in 1..(cur - 1) : cycles'[c] = cycles[c]]_vars

\* a superseded cycle has completed and returned without writing, and the state
\* shown is the one the newer cycle published
C1_Witness ==
    /\ cur >= 2
    /\ cycles[1].pc = "dropped"
    /\ cycles[cur].pc = "published"
    /\ cycles[cur].startYear # cycles[1].startYear
    /\ IsReady(state)

\* C2: in the current, not superseded cycle, a failed fetch means the state is
\* Error with no data whatever the other two slots hold, and data is present
\* only when all three fetches succeeded.
C2_AnyFailureIsError ==
    cur >= 1 /\ ~cycles[cur].cancelled =>
        /\ (\E i \in Slots : cycles[cur].fetch[i] = "failed") =>
                IsError(state) /\ state.data = Null
        /\ state.data # Null => \A i \in Slots : cycles[cur].fetch[i] = "ok"

\* one fetch failed after the two others succeeded, and the state is Error
C2_Witness ==
    /\ cur >= 1 /\ ~cycles[cur].cancelled
    /\ \E i \in Slots :
          /\ cycles[cur].fetch[i] = "failed"
          /\ \A j \in Slots \ {i} : cycles[cur].fetch[j] = "ok"
    /\ IsError(state)

\* C3: the state is always Loading, Error or Ready, and the render conditions
\* show exactly the view of that state: the loading indicator, the error
\* message or the dashboard.
C3_ExactlyTheMatchingView ==
    \/ IsLoading(state) /\ ShowsLoading /\ ~ShowsError /\ ~ShowsDashboard
    \/ IsError(state) /\ ~ShowsLoading /\ ShowsError /\ ~ShowsDashboard
    \/ IsReady(state) /\ ~ShowsLoading /\ ~ShowsError /\ ShowsDashboard

\* C4 as stated: no Ready or Error state is published while a fetch of the
\* cycle is still pending.
C4_NothingPublishedWhilePending ==
    cur >= 1 /\ ~cycles[cur].cancelled /\ ~IsLoading(state) =>
        \A i \in Slots : ~Pending(cycles[cur].fetch[i])

\* C4 amended: a Ready state is never published while a fetch of the cycle is
\* pending; a state published while one is pending is the Error of a fetch
\* that has already failed.
C4_OnlyErrorPublishedWhilePending ==
    cur >= 1 /\ ~cycles[cur].cancelled =>
        /\ IsReady(state) => \A i \in Slots : ~Pending(cycles[cur].fetch[i])
        /\ (~IsLoading(state) /\ \E i \in Slots : Pending(cycles[cur].fetch[i])) =>
                IsError(state) /\ \E i \in Slots : cycles[cur].fetch[i] = "failed"

\* an Error is shown while the two other fetches of the cycle have not settled
C4_Witness ==
    /\ cur >= 1 /\ ~cycles[cur].cancelled
    /\ IsError(state)
    /\ Cardinality({i \in Slots : Pending(cycles[cur].fetch[i])}) = 2

\* C10: a change of startYear schedules the effect; the effect starts a cycle
\* for the new startYear with the state back at Loading; a reloaded page is at
\* Loading with no cycle and the effect scheduled; Loading is left only for the
\* Ready or Error the current cycle publishes; a scheduled effect runs, and
\* once startYear no longer changes (SetStartYear is bounded by MaxCycles, the
\* page is reloaded finitely often) and the fetches settle, the state leaves
\* Loading.
C10_LoadCycleStateMachine ==
    /\ [][/\ startYear' # startYear => effectPending'
          /\ NumCycles' > NumCycles =>
                /\ NumCycles' = NumCycles + 1
                /\ IsLoading(state')
                /\ cycles'[NumCycles'].startYear = startYear
                /\ cycles'[NumCycles'].pc = "await"
                /\ ~effectPending'
          /\ NumCycles' < NumCycles =>
                /\ NumCycles' = 0
                /\ IsLoading(state')
                /\ effectPending'
          /\ IsLoading(state) /\ ~IsLoading(state') =>
                /\ NumCycles' = NumCycles
                /\ cycles[cur].pc = "await" /\ cycles'[cur].pc = "published"
                /\ IsReady(state') \/ IsError(state')]_vars
    /\ effectPending ~> ~effectPending
    /\ <>[][~Reload]_vars => (IsLoading(state) ~> ~IsLoading(state))

\* startYear was changed after a cycle had published; the state is Loading
\* again for the second cycle
C10_Witness ==
    /\ cur = 2
    /\ cycles[1].pc = "published"
    /\ cycles[2].startYear # cycles[1].startYear
    /\ cycles[2].pc = "await"
    /\ IsLoading(state)

-----------------------------------------------------------------------------
(* Properties of the metric calculator (CalcSpec) *)

\* the k-th element from the end
FromEnd(values, k) == values[Len(values) - k + 1]
PctChange(latest, base) == JsMul(JsDiv(JsSub(latest, base), base), Int2Num(100))
HasPoints(v, n) == v # Null /\ Len(v.a) >= n

\* C5: pctChangeYoY is null below 13 points and otherwise the percentage
\* change from the 13th value from the end to the last value.
C5_YoYFormula ==
    output # Idle =>
        IF HasPoints(input, 13)
        THEN output.yoy = PctChange(FromEnd(input.a, 1), FromEnd(input.a, 13))
        ELSE output.yoy = Null

\* 14 points whose first differs from the 13th from the end: a finite change
C5_Witness ==
    /\ output # Idle
    /\ HasPoints(input, 14)
    /\ input.a[1] # input.a[2]
    /\ output.yoy = Int2Num(-100)

\* C6: with a denominator of exactly zero both functions return null.
C6_ZeroDenominatorIsAbsent ==
    output # Idle =>
        /\ HasPoints(input, 13) /\ FromEnd(input.a, 13) = Int2Num(0) => output.yoy = Null
        /\ HasPoints(input, 2) /\ FromEnd(input.a, 2) = Int2Num(0) => output.mom = Null

-----------------------------------------------------------------------------
(* Properties of the parser (ParseSpec) *)

\* json.Results.series[0].data is an array
HasDataArray(json) ==
    /\ Prop(Prop(json, "Results"), "series").k = "arr"
    /\ Prop(Prop(json, "Results"), "series").a # <<>>
    /\ Prop(Prop(Prop(json, "Results"), "series").a[1], "data").k = "arr"
DataOf(json) == Prop(Prop(Prop(json, "Results"), "series").a[1], "data").a

\* a tuple naming a calendar month with a numeric value
GoodTuple(d) ==
    /\ d.k = "obj"
    /\ DOMAIN d.f = {"year", "period", "value"}
    /\ d.f["year"] \in TupleYears
    /\ d.f["period"] \in MonthPeriods
    /\ d.f["value"] \in NumericValues

\* a data array of good tuples, no two for the same month
WellFormed(json) ==
    /\ HasDataArray(json)
    /\ \A i \in 1..Len(DataOf(json)) : GoodTuple(DataOf(json)[i])
    /\ \A i, j \in 1..Len(DataOf(json)) :
          i # j => <<DataOf(json)[i].f["year"], DataOf(json)[i].f["period"]>>
                   # <<DataOf(json)[j].f["year"], DataOf(json)[j].f["period"]>>

Before(d1, d2) ==
    d1.valid /\ d2.valid /\ (d1.y < d2.y \/ (d1.y = d2.y /\ d1.m < d2.m))

\* C7: the parser returns the empty series for every payload that is not well
\* shaped (no data array, a tuple that names no month, a value that is no
\* number), and no point of a returned series has an invalid date or NaN.
C7_MalformedGivesEmpty ==
    output # Idle =>
        /\ output.k = "arr"
        /\ (~HasDataArray(input) \/ \E i \in 1..Len(DataOf(input)) : ~GoodTuple(DataOf(input)[i]))
              => output.a = <<>>
        /\ \A i \in 1..Len(output.a) :
              output.a[i].date.valid /\ output.a[i].value.k = "num"

\* C8: for a well-formed payload the series has one point per tuple, the
\* points are those of the tuples, and the dates are strictly ascending.
C8_SortedStrictlyAscending ==
    output # Idle /\ WellFormed(input) =>
        /\ Len(output.a) = Len(DataOf(input))
        /\ {output.a[i] : i \in 1..Len(output.a)}
              = {MapPoint(DataOf(input)[i]) : i \in 1..Len(DataOf(input))}
        /\ \A i, j \in 1..Len(output.a) :
              i < j => Before(output.a[i].date, output.a[j].date)

\* three tuples given newest first come back oldest first
C8_Witness ==
    /\ output # Idle /\ WellFormed(input)
    /\ Len(DataOf(input)) = 3
    /\ \A i \in 1..3 : output.a[i] = MapPoint(DataOf(input)[4 - i])

-----------------------------------------------------------------------------
(* Properties of the chart rows (ChartSpec) *)

\* C9: there is one row per point of headlineNSA (none without data); row i
\* carries the value of the reference point i and the values of the auxiliary
\* series at index i, which are null past the end of an auxiliary series.
C9_RowsFollowReference ==
    output # Idle =>
        IF input.data = Null THEN output.rows = <<>>
        ELSE /\ Len(output.rows) = Len(input.data.headlineNSA)
             /\ \A i \in 1..Len(output.rows) :
                   /\ output.rows[i].Headline_NSA = input.data.headlineNSA[i].value
                   /\ output.rows[i].Headline_SA =
                        IF i <= Len(input.data.headlineSA)
                        THEN input.data.headlineSA[i].value ELSE Null
                   /\ output.rows[i].Core_SA =
                        IF i <= Len(input.data.coreSA)
                        THEN input.data.coreSA[i].value ELSE Null

\* a reference of 13 points with a headline-SA series of 10: rows 11 to 13
\* (indices 10 to 12) have no SA value, and an SA value of zero stays zero
C9_Witness ==
    /\ output # Idle /\ input.data # Null
    /\ Len(input.data.headlineNSA) = 13
    /\ Len(input.data.headlineSA) = 10
    /\ Len(output.rows) = 13
    /\ \A i \in 11..13 : output.rows[i].Headline_SA = Null
    /\ \E i \in 1..10 : output.rows[i].Headline_SA = Int2Num(0)

====
